---- MODULE Spec2Model ----
(***************************************************************************)
(* Model of head_to_head_sorter.py: an interactive merge sort whose        *)
(* comparator is a person pressing keys.  The model follows the Python     *)
(* call stack: one frame per head_to_head_sorter call (with its call of    *)
(* merge_with_preference inlined), the blocking key loop of input_handler, *)
(* the propagation of SystemExit / RecursionError, and main's print and    *)
(* save prompt.                                                            *)
(***************************************************************************)
EXTENDS Integers, Sequences, FiniteSets, TLC

\* ---------------------------------------------------------------- bounds
MaxLen == 3          \* longest input list drawn in Init
NumItems == 3        \* items are 1..NumItems (duplicates allowed)
RecursionLimit == 4  \* stands for the interpreter's recursion limit

Items == 1..NumItems

\* ---------------------------------------------------------------- values
None == <<>>
Some(v) == <<v>>

\* Keystrokes returned by term.inkey(): name is set for key sequences only.
KeyLeft == [name |-> "KEY_LEFT", text |-> "ESC[D"]
KeyRight == [name |-> "KEY_RIGHT", text |-> "ESC[C"]
KeyUp == [name |-> "KEY_UP", text |-> "ESC[A"]
Char(c) == [name |-> "None", text |-> c]
Keys == {KeyLeft, KeyRight, KeyUp, Char("q"), Char("Q"), Char("x"), Char("y"), Char("n")}

\* str.lower() on the texts above
Lower(t) ==
  CASE t = "Q" -> "q"
    [] t = "ESC[D" -> "esc[d"
    [] t = "ESC[C" -> "esc[c"
    [] t = "ESC[A" -> "esc[a"
    [] OTHER -> t

\* the order a consistent decision source answers by
Precedes(a, b) == a < b

VARIABLES
  input,         \* items read from the file (main, line 126)
  pc,            \* position of main / the process
  stack,         \* call stack of head_to_head_sorter frames, top last
  exc,           \* exception in flight: "None", "SystemExit", "RecursionError"
  sorted_items,  \* main's sorted_items: None until the sort returns
  printed,       \* the numbered list printed by main, None before
  savePrompted,  \* the save prompt has been printed
  saved,         \* lines written to the destination file, None if none
  exitStatus,    \* the process's exit status, None while running
  compares,      \* number of input_handler invocations (line 103)
  prompts,       \* number of comparison prompts printed (line 56)
  lastKey,       \* last keystroke returned by term.inkey()
  merges,        \* log of completed merges: <<len(left), len(right), invocations>>
  consistent,    \* every decision so far agreed with Precedes
  firstResult    \* result of a first sort when the result is fed back in

vars == <<input, pc, stack, exc, sorted_items, printed, savePrompted, saved,
          exitStatus, compares, prompts, lastKey, merges, consistent, firstResult>>

mainVars == <<printed, savePrompted, saved, exitStatus>>

\* ---------------------------------------------------------------- helpers
Top == stack[Len(stack)]
Pop == SubSeq(stack, 1, Len(stack) - 1)
SetTop(f) == [stack EXCEPT ![Len(stack)] = f]

Frame(items) ==
  [pc |-> "h2h", items |-> items, left |-> <<>>, right |-> <<>>,
   i |-> 0, j |-> 0, result |-> <<>>, n |-> 0]

\* items[a:] of Python, a counted from 0
Tail0(s, a) == SubSeq(s, a + 1, Len(s))
\* items[:a] of Python
Head0(s, a) == SubSeq(s, 1, a)

IsBaseCase(items) == Len(items) = 1

Mid(items) == Len(items) \div 2

\* every outcome of random.shuffle(items)
Shuffles(items) ==
  {[k \in 1..Len(items) |-> items[p[k]]] : p \in Permutations(1..Len(items))}

\* off by one on the right cursor
LoopCondShort(f) == f.i < Len(f.left) /\ f.j < Len(f.right) - 1

LoopCond(f) == f.i < Len(f.left) /\ f.j < Len(f.right)

\* line 111 left out
ExtendedDropsRight(f) == f.result \o Tail0(f.left, f.i)

Extended(f) == f.result \o Tail0(f.left, f.i) \o Tail0(f.right, f.j)

SysExitStatus(code) == IF code = None THEN 0 ELSE code[1]

Init ==
  /\ input \in UNION {[1..n -> Items] : n \in 0..MaxLen}
  /\ pc = "main"
  /\ stack = <<>>
  /\ exc = "None"
  /\ sorted_items = None
  /\ printed = None
  /\ savePrompted = FALSE
  /\ saved = None
  /\ exitStatus = None
  /\ compares = 0
  /\ prompts = 0
  /\ lastKey = Char("x")
  /\ merges = <<>>
  /\ consistent = TRUE
  /\ firstResult = None

\* a call of head_to_head_sorter(term, args) on top of stk
CallSorter(stk, args) ==
  IF Len(stk) < RecursionLimit
    THEN stack' = Append(stk, Frame(args)) /\ exc' = exc
    ELSE stack' = stk /\ exc' = "RecursionError"

\* main, line 128
MainCall ==
  /\ pc = "main"
  /\ pc' = "sorting"
  /\ CallSorter(stack, input)
  /\ UNCHANGED <<input, sorted_items, mainVars, compares, prompts, lastKey, merges,
                 consistent, firstResult>>

\* the top frame returns value to its caller
ReturnFromSorter(value) ==
  IF Len(stack) = 1
    THEN /\ stack' = <<>>
         /\ sorted_items' = Some(value)
         /\ pc' = "print"
         /\ exc' = exc
    ELSE LET rest == Pop
             parent == rest[Len(rest)]
         IN /\ UNCHANGED <<sorted_items, pc>>
            /\ IF parent.pc = "wait_left"
                 THEN CallSorter(
                        [rest EXCEPT ![Len(rest)] =
                           [parent EXCEPT !.left = value, !.pc = "wait_right"]],
                        Tail0(parent.items, Mid(parent.items)))
                 ELSE /\ stack' = [rest EXCEPT ![Len(rest)] =
                           [parent EXCEPT !.right = value, !.pc = "merge"]]
                      /\ exc' = exc

\* head_to_head_sorter, lines 80-81
BaseCase ==
  /\ exc = "None" /\ Len(stack) > 0
  /\ Top.pc = "h2h"
  /\ IsBaseCase(Top.items)
  /\ ReturnFromSorter(Top.items)
  /\ UNCHANGED <<input, mainVars, compares, prompts, lastKey, merges, consistent, firstResult>>

\* head_to_head_sorter, lines 82-84
ShuffleSplit ==
  /\ exc = "None" /\ Len(stack) > 0
  /\ Top.pc = "h2h"
  /\ ~IsBaseCase(Top.items)
  /\ \E s \in Shuffles(Top.items) :
       CallSorter(SetTop([Top EXCEPT !.items = s, !.pc = "wait_left"]),
                  Head0(s, Mid(s)))
  /\ UNCHANGED <<input, pc, sorted_items, mainVars, compares, prompts, lastKey, merges,
                 consistent, firstResult>>

\* merge_with_preference, lines 102-103 and input_handler, line 56
MergePrompt ==
  /\ exc = "None" /\ Len(stack) > 0
  /\ Top.pc = "merge"
  /\ LoopCond(Top)
  /\ stack' = SetTop([Top EXCEPT !.pc = "inkey", !.n = @ + 1])
  /\ compares' = compares + 1
  /\ prompts' = prompts + 1
  /\ UNCHANGED <<input, pc, exc, sorted_items, mainVars, lastKey, merges,
                 consistent, firstResult>>

\* input_handler, lines 58-61 and merge_with_preference, lines 104-106
PreferLeft ==
  /\ exc = "None" /\ Len(stack) > 0
  /\ Top.pc = "inkey"
  /\ \E key \in Keys :
       /\ key.name = "KEY_LEFT"
       /\ lastKey' = key
  /\ stack' = SetTop([Top EXCEPT !.result = Append(@, Top.left[Top.i + 1]),
                                 !.i = @ + 1, !.pc = "merge"])
  /\ consistent' = (consistent /\ Precedes(Top.left[Top.i + 1], Top.right[Top.j + 1]))
  /\ UNCHANGED <<input, pc, exc, sorted_items, mainVars, compares, prompts, merges, firstResult>>

\* input_handler, lines 62-64 and merge_with_preference, lines 107-109
PreferRight ==
  /\ exc = "None" /\ Len(stack) > 0
  /\ Top.pc = "inkey"
  /\ \E key \in Keys :
       /\ key.name # "KEY_LEFT"
       /\ key.name = "KEY_RIGHT"
       /\ lastKey' = key
  /\ stack' = SetTop([Top EXCEPT !.result = Append(@, Top.right[Top.j + 1]),
                                 !.j = @ + 1, !.pc = "merge"])
  /\ consistent' = (consistent /\ ~Precedes(Top.left[Top.i + 1], Top.right[Top.j + 1]))
  /\ UNCHANGED <<input, pc, exc, sorted_items, mainVars, compares, prompts, merges, firstResult>>

\* q is echoed but sys.exit() is not called
QuitIgnored ==
  /\ exc = "None" /\ Len(stack) > 0
  /\ Top.pc = "inkey"
  /\ \E key \in Keys :
       /\ key.name # "KEY_LEFT" /\ key.name # "KEY_RIGHT"
       /\ Lower(key.text) = "q"
       /\ lastKey' = key
  /\ UNCHANGED <<input, pc, stack, exc, sorted_items, mainVars, compares, prompts,
                 merges, consistent, firstResult>>

\* input_handler, lines 65-67: sys.exit() raises SystemExit
Quit ==
  /\ exc = "None" /\ Len(stack) > 0
  /\ Top.pc = "inkey"
  /\ \E key \in Keys :
       /\ key.name # "KEY_LEFT" /\ key.name # "KEY_RIGHT"
       /\ Lower(key.text) = "q"
       /\ lastKey' = key
  /\ exc' = "SystemExit"
  /\ UNCHANGED <<input, pc, stack, sorted_items, mainVars, compares, prompts, merges,
                 consistent, firstResult>>

\* any other key taken as 'right'
IgnoreKeyAsRight ==
  /\ exc = "None" /\ Len(stack) > 0
  /\ Top.pc = "inkey"
  /\ \E key \in Keys :
       /\ key.name # "KEY_LEFT" /\ key.name # "KEY_RIGHT"
       /\ Lower(key.text) # "q"
       /\ lastKey' = key
  /\ stack' = SetTop([Top EXCEPT !.result = Append(@, Top.right[Top.j + 1]),
                                 !.j = @ + 1, !.pc = "merge"])
  /\ UNCHANGED <<input, pc, exc, sorted_items, mainVars, compares, prompts, merges,
                 consistent, firstResult>>

\* input_handler, lines 57-58: no branch matches, the loop reads another key
IgnoreKey ==
  /\ exc = "None" /\ Len(stack) > 0
  /\ Top.pc = "inkey"
  /\ \E key \in Keys :
       /\ key.name # "KEY_LEFT" /\ key.name # "KEY_RIGHT"
       /\ Lower(key.text) # "q"
       /\ lastKey' = key
  /\ UNCHANGED <<input, pc, stack, exc, sorted_items, mainVars, compares, prompts, merges,
                 consistent, firstResult>>

\* merge_with_preference, lines 102 (loop exit) and 110-112
MergeReturn ==
  /\ exc = "None" /\ Len(stack) > 0
  /\ Top.pc = "merge"
  /\ ~LoopCond(Top)
  /\ merges' = Append(merges, <<Len(Top.left), Len(Top.right), Top.n>>)
  /\ ReturnFromSorter(Extended(Top))
  /\ UNCHANGED <<input, mainVars, compares, prompts, lastKey, consistent, firstResult>>

\* the frame swallows the exception and goes on merging
UnwindCatches ==
  /\ exc # "None" /\ Len(stack) > 0
  /\ exc' = "None"
  /\ stack' = SetTop([Top EXCEPT !.pc = IF @ = "inkey" THEN "merge" ELSE @])
  /\ UNCHANGED <<input, pc, sorted_items, mainVars, compares, prompts, lastKey,
                 merges, consistent, firstResult>>

\* an exception leaves the top frame: no frame has an except clause
Unwind ==
  /\ exc # "None" /\ Len(stack) > 0
  /\ stack' = Pop
  /\ UNCHANGED <<input, pc, exc, sorted_items, mainVars, compares, prompts, lastKey,
                 merges, consistent, firstResult>>

\* the exception leaves main and the with block; the interpreter exits
MainAbort ==
  /\ exc # "None" /\ Len(stack) = 0
  /\ pc = "sorting"
  /\ pc' = "exited"
  /\ exitStatus' = Some(IF exc = "SystemExit" THEN SysExitStatus(None) ELSE 1)
  /\ UNCHANGED <<input, stack, exc, sorted_items, printed, savePrompted, saved,
                 compares, prompts, lastKey, merges, consistent, firstResult>>

\* main, lines 129-133
PrintSorted ==
  /\ pc = "print"
  /\ printed' = Some([k \in 1..Len(sorted_items[1]) |-> <<k, sorted_items[1][k]>>])
  /\ savePrompted' = TRUE
  /\ pc' = "save"
  /\ UNCHANGED <<input, stack, exc, sorted_items, saved, exitStatus, compares, prompts,
                 lastKey, merges, consistent, firstResult>>

\* main, lines 135-143, then normal exit
SaveYes ==
  /\ pc = "save"
  /\ \E key \in Keys :
       /\ Lower(key.text) = "y"
       /\ lastKey' = key
  /\ saved' = Some(sorted_items[1])
  /\ pc' = "exited"
  /\ exitStatus' = Some(0)
  /\ UNCHANGED <<input, stack, exc, sorted_items, printed, savePrompted, compares, prompts,
                 merges, consistent, firstResult>>

\* main, lines 144-146, then normal exit
SaveNo ==
  /\ pc = "save"
  /\ \E key \in Keys :
       /\ Lower(key.text) # "y"
       /\ Lower(key.text) = "n"
       /\ lastKey' = key
  /\ pc' = "exited"
  /\ exitStatus' = Some(0)
  /\ UNCHANGED <<input, stack, exc, sorted_items, printed, savePrompted, saved,
                 compares, prompts, merges, consistent, firstResult>>

\* main, lines 134-135: neither y nor n, the loop reads another key
SaveIgnore ==
  /\ pc = "save"
  /\ \E key \in Keys :
       /\ Lower(key.text) # "y" /\ Lower(key.text) # "n"
       /\ lastKey' = key
  /\ UNCHANGED <<input, pc, stack, exc, sorted_items, mainVars, compares, prompts, merges,
                 consistent, firstResult>>

SortStep ==
  \/ MainCall
  \/ BaseCase
  \/ ShuffleSplit
  \/ MergePrompt
  \/ PreferLeft
  \/ PreferRight
  \/ Quit
  \/ IgnoreKey
  \/ MergeReturn
  \/ Unwind
  \/ MainAbort

Next ==
  \/ SortStep
  \/ PrintSorted
  \/ SaveYes
  \/ SaveNo
  \/ SaveIgnore

Spec == Init /\ [][Next]_vars

\* sort(sort(L)): the list a first sort returned is handed to a second sort
Refeed ==
  /\ pc = "print"
  /\ firstResult = None
  /\ firstResult' = sorted_items
  /\ sorted_items' = None
  /\ pc' = "sorting"
  /\ CallSorter(stack, sorted_items[1])
  /\ UNCHANGED <<input, mainVars, compares, prompts, lastKey, merges, consistent>>

NextResort ==
  \/ SortStep
  \/ Refeed

SpecResort == Init /\ [][NextResort]_vars

\* the interpreter keeps running, and every pending comparison eventually
\* receives a recognized signal
ProgramStep ==
  \/ MainCall
  \/ BaseCase
  \/ ShuffleSplit
  \/ MergePrompt
  \/ MergeReturn
  \/ Unwind
  \/ MainAbort

Decision ==
  \/ PreferLeft
  \/ PreferRight
  \/ Quit

FairSpec == Init /\ [][Next]_vars /\ WF_vars(ProgramStep) /\ WF_vars(Decision)

\* ---------------------------------------------------------------- properties
BagOf(s) == [x \in Items |-> Cardinality({k \in DOMAIN s : s[k] = x})]

Distinct(s) == \A a, b \in DOMAIN s : a # b => s[a] # s[b]

Min(a, b) == IF a < b THEN a ELSE b

RECURSIVE SumCounts(_)
SumCounts(log) == IF log = <<>> THEN 0 ELSE log[1][3] + SumCounts(Tail(log))

RECURSIVE SumBounds(_)
SumBounds(log) ==
  IF log = <<>> THEN 0 ELSE log[1][1] + log[1][2] - 1 + SumBounds(Tail(log))

\* the reference-sorted list: the ascending arrangement of L's items
SortedRef(L) ==
  CHOOSE s \in [1..Len(L) -> Items] :
    /\ BagOf(s) = BagOf(L)
    /\ \A a, b \in 1..Len(L) : a < b => ~Precedes(s[b], s[a])

Returned == sorted_items # None

Cancelled == exc = "SystemExit"

Pending == exc = "None" /\ Len(stack) > 0 /\ Top.pc = "inkey"

Unrecognized(key) ==
  key.name # "KEY_LEFT" /\ key.name # "KEY_RIGHT" /\ Lower(key.text) # "q"

\* C1: with distinct items and a decision source that answers every
\* comparison by one strict total order, the list the sort returns is the
\* input sorted by that order, whatever the shuffles were.
OrderCorrect ==
  (Returned /\ consistent /\ Distinct(input)) => sorted_items[1] = SortedRef(input)

OrderCorrectWitness ==
  /\ Returned /\ consistent
  /\ input = <<2, 1, 3>>
  /\ sorted_items[1] = <<1, 2, 3>>
  /\ compares = 3

\* C2: the multiset of items is conserved by every shuffle, split and merge
\* step: in every frame, output so far plus the unconsumed parts of left and
\* right is the multiset the frame was called with, each callee holds the
\* multiset of its caller's slice, and a returned list is a permutation of
\* the input of the same length.
Conservation ==
  /\ \A k \in DOMAIN stack :
       LET f == stack[k] IN
       /\ f.pc \in {"merge", "inkey"} =>
            /\ BagOf(Extended(f)) = BagOf(f.left \o f.right)
            /\ BagOf(f.left \o f.right) = BagOf(f.items)
       /\ (f.pc = "wait_left" /\ k < Len(stack)) =>
            BagOf(stack[k + 1].items) = BagOf(Head0(f.items, Mid(f.items)))
       /\ (f.pc = "wait_right" /\ k < Len(stack)) =>
            /\ BagOf(f.left) = BagOf(Head0(f.items, Mid(f.items)))
            /\ BagOf(stack[k + 1].items) = BagOf(Tail0(f.items, Mid(f.items)))
       /\ k = 1 => BagOf(f.items) = BagOf(input)
  /\ Returned =>
       /\ BagOf(sorted_items[1]) = BagOf(input)
       /\ Len(sorted_items[1]) = Len(input)

ConservationWitness ==
  /\ Returned /\ ~consistent
  /\ input = <<2, 1, 2>>
  /\ compares = 3

\* C3: a list of 0 or 1 items is returned unchanged with no comparison; the
\* sort of such a list does not fail.
BaseCaseReturns ==
  Len(input) <= 1 =>
    /\ exc # "RecursionError"
    /\ compares = 0
    /\ Returned => sorted_items[1] = input

\* C4: once Cancel is signalled, no further comparison is issued, no frame
\* goes on (the stack only unwinds), the sort never returns a list, and
\* neither the sorted list, nor the save prompt, nor a file write happens.
CancelAborts ==
  [][Cancelled =>
       /\ Cancelled'
       /\ compares' = compares /\ prompts' = prompts /\ merges' = merges
       /\ stack' \in {stack, Pop}
       /\ sorted_items' = None /\ printed' = None
       /\ savePrompted' = FALSE /\ saved' = None]_vars

CancelAbortsWitness ==
  /\ Cancelled /\ pc = "exited"
  /\ Len(input) = 3 /\ compares = 2 /\ Len(merges) = 1

\* C5: a run that completes normally exits with status 0 and a run cancelled
\* by the quit signal exits with a non-zero status.
ExitStatusDistinguishes ==
  pc = "exited" =>
    /\ exc = "None" => exitStatus = Some(0)
    /\ Cancelled => exitStatus # Some(0)

MergeCountExact ==
  \A k \in DOMAIN merges : merges[k][3] = merges[k][1] + merges[k][2] - 1

\* C7 amended: every completed merge made at least min(len(left),len(right))
\* and at most len(left)+len(right)-1 gateway invocations, and the total of a
\* completed sort is the sum of its merges' counts, at most the sum of
\* len(left)+len(right)-1.
MergeCountBounded ==
  /\ \A k \in DOMAIN merges :
       /\ Min(merges[k][1], merges[k][2]) <= merges[k][3]
       /\ merges[k][3] <= merges[k][1] + merges[k][2] - 1
  /\ Returned =>
       /\ compares = SumCounts(merges)
       /\ compares <= SumBounds(merges)

MergeCountWitness ==
  /\ Returned
  /\ Len(input) = 3
  /\ Len(merges) = 2
  /\ merges[2][3] = 1
  /\ merges[2][1] + merges[2][2] = 3

\* C8: a completed sort of N items used 2N - 1 comparisons.
RoundCount2N1 ==
  Returned => compares = 2 * Len(input) - 1

\* C9: with one consistent decision source, sorting the output of a sort
\* again returns the same order.
Idempotent ==
  (firstResult # None /\ Returned /\ consistent) => sorted_items = firstResult

IdempotentWitness ==
  /\ firstResult # None /\ Returned /\ consistent
  /\ input = <<3, 1, 2>>
  /\ compares >= 5

\* C10: every decision advances exactly one merge cursor by one, and a sort
\* of at least one item eventually finishes, returning a list or aborting
\* on Cancel.
Terminates ==
  /\ [][(Pending /\ stack' # stack) =>
          /\ Len(stack') = Len(stack)
          /\ LET f == Top
                 g == stack'[Len(stack)]
             IN \/ g.i = f.i + 1 /\ g.j = f.j
                \/ g.i = f.i /\ g.j = f.j + 1]_vars
  /\ (Len(input) >= 1) ~> (Returned \/ Cancelled)

TerminatesWitness ==
  /\ Returned /\ ~consistent
  /\ Len(input) = 3
  /\ compares = 3

====
